---- MODULE Spec2Model ----
(***************************************************************************)
(* Model of HugeCTR/include/gpu_resource.hpp: the per-accelerator          *)
(* GPUResource (library handles and streams) and the GPUResourceGroup that *)
(* bootstraps the NCCL communicators, builds one GPUResource per local     *)
(* accelerator and tears everything down.  Both builds of the header are   *)
(* modelled: without ENABLE_MPI (one process, ncclCommInitAll) and with    *)
(* ENABLE_MPI (n_ranks cooperating processes, ncclGetUniqueId on rank 0,   *)
(* MPI_Bcast, grouped ncclCommInitRank).                                   *)
(*                                                                         *)
(* Every fallible library call may fail (a CK_*_THROW_ macro then throws); *)
(* the number of injected failures of one run is bounded by MaxFaults.     *)
(***************************************************************************)
EXTENDS Integers, Sequences, FiniteSets, TLC

\* ---------------------------------------------------------------- bounds
MaxProcs == 2      \* cooperating processes of an ENABLE_MPI run
MaxLocal == 2      \* longest device list of one process
MaxDevId == 1      \* accelerator identifiers are 0..MaxDevId
MaxDevCount == 2   \* cudaGetDeviceCount reports 0..MaxDevCount
MaxHeld == 1       \* shared views a caller keeps at one time
MaxFaults == 1     \* failing library calls injected in one run
MaxToken == 2      \* ncclUniqueId values are 1..MaxToken (0: stale stack bytes)

\* ------------------------------------------------------ program constants
NULL == 0          \* nullptr
NumHandles == 6    \* native objects a GPUResource owns
NoFail == NumHandles + 1

VARIABLES
  mpi,            \* TRUE: the header is compiled with ENABLE_MPI
  n_ranks,        \* MPI_Comm_size (1 without ENABLE_MPI)
  device_list,    \* device_list[p]: DeviceMap::get_device_list() of process p
  visible,        \* visible[p]: accelerators visible on p's host
  dev_count,      \* dev_count[p]: the local int dev_count (0 until the validation block)
  pc,             \* pc[p]: position of process p in ctor / lifetime / dtor
  error,          \* error[p]: the exception that left the group's constructor
  pool,           \* pool[p]: worker threads of train_thread_pool
  affinity,       \* affinity[p]: worker threads set_affinity has been called for
  comms,          \* comms[p]: comms_ (base address NULL: nullptr) and its slots
  nid,            \* nid[p]: the local ncclUniqueId nid
  bcast,          \* <<>> or <<token>>: what rank 0 has sent with MPI_Bcast
  rendezvous,     \* ranks that have arrived at the NCCL rendezvous
  gpu_resources,  \* gpu_resources[p]: gpu_resources_ (shared_ptr vector)
  handles,        \* handles[p]: live native handles <<resource id, kind>>
  held,           \* held[p]: shared_ptr copies callers keep
  cerr,           \* cerr[p]: messages written to std::cerr
  escaped,        \* escaped[p]: an exception left a destructor
  calls,          \* calls[p]: the library calls p has made, in order
  faults          \* failing library calls injected so far

vars == <<mpi, n_ranks, device_list, visible, dev_count, pc, error, pool, affinity, comms, nid,
          bcast, rendezvous, gpu_resources, handles, held, cerr, escaped,
          calls, faults>>

config == <<mpi, n_ranks, device_list, visible>>

\* --------------------------------------------------------------- helpers
Procs == 1..n_ranks

Range(s) == {s[i] : i \in DOMAIN s}

Min(a, b) == IF a < b THEN a ELSE b

RECURSIVE SumLen(_, _)
SumLen(dl, n) == IF n = 0 THEN 0 ELSE Len(dl[n]) + SumLen(dl, n - 1)

\* Device lists a device map can hold: accelerator ids, unique in a process.
DeviceLists ==
  {s \in UNION {[1..n -> 0..MaxDevId] : n \in 0..MaxLocal} :
     \A i, j \in DOMAIN s : i # j => s[i] # s[j]}

\* ------------------------------------------------------------ device map
\* GPUResourceGroup::size(): the device map's local list length.
size(p) == Len(device_list[p])

\* GPUResourceGroup::get_total_gpu_count(): DeviceMap::size(), the number of
\* accelerators of all processes.
get_total_gpu_count == SumLen(device_list, n_ranks)

\* total_gpu_count, the group size handed to ncclCommInitRank: the header
\* uses the name but its declaration, int total_gpu_count =
\* get_total_gpu_count(), is commented out; it stands for the total
\* accelerator count across all processes.
total_gpu_count == get_total_gpu_count

\* Position (1-based) of accelerator dev in p's device list.
LocalIndex(p, dev) == CHOOSE i \in DOMAIN device_list[p] : device_list[p][i] = dev

\* GPUResourceGroup::get_global_id(): DeviceMap numbers the accelerators of
\* process 0 first, then those of process 1, ..., each in local order.
get_global_id(p, dev) == SumLen(device_list, p - 1) + LocalIndex(p, dev) - 1

\* --------------------------------------------------------------- errors
NoError == [type |-> "None", msg |-> "", arg |-> 0]

Err(t, m, a) == [type |-> t, msg |-> m, arg |-> a]

\* One entry of calls[p]: the function that made the call, the call, the
\* local index it is for (0: none), an argument and whether it succeeded.
Call(by, api, idx, arg, ok) ==
  [by |-> by, api |-> api, idx |-> idx, arg |-> arg, ok |-> ok]

\* -------------------------------------------------------- communicators
NullComms == [base |-> NULL, slots |-> <<>>]

\* new ncclComm_t[n](): value-initialised slots.
ZeroSlot == [st |-> "zero", rank |-> 0, nranks |-> 0, nid |-> 0, dev |-> 0]

\* Where operator new[] puts the array of process p (never nullptr).
NewArrayAt(p) == p * (MaxLocal + 1)

\* comms_.get() + i, i counted from 0.
CommPtr(base, i) == base + i

\* ------------------------------------------------------------ GPUResource
\* Steps of GPUResource's constructor and destructor, in source order:
\* step 0 is the CudaDeviceContext guard, steps 1..6 the native objects.
CreateApi == <<"CudaDeviceContext", "cublasCreate", "curandCreateGenerator",
               "cudnnCreate", "cudaStreamCreate", "cudaStreamCreate",
               "cudaStreamCreate">>

\* Mutant: the streams are destroyed before the library handles.
DestroyApi_StreamsFirst == <<"CudaDeviceContext", "cudaStreamDestroy", "cudaStreamDestroy",
                             "cudaStreamDestroy", "cublasDestroy",
                             "curandDestroyGenerator", "cudnnDestroy">>

DestroyApi == <<"CudaDeviceContext", "cublasDestroy", "curandDestroyGenerator",
                "cudnnDestroy", "cudaStreamDestroy", "cudaStreamDestroy",
                "cudaStreamDestroy">>

StepError == <<"CudaError", "CublasError", "CurandError", "CudnnError",
               "CudaError", "CudaError", "CudaError">>

\* The calls a constructor/destructor run makes when step fail fails
\* (fail = NoFail: none does): steps 0..fail, the last one failing.
StepCalls(by, api, i, fail) ==
  [k \in 1..(Min(fail, NumHandles) + 1) |-> Call(by, api[k], i, k - 1, k - 1 < fail)]

\* Handles the steps before fail have created (or destroyed).
StepHandles(i, fail) == {<<i, k>> : k \in {j \in 1..NumHandles : j < fail}}

\* Handles a constructor that failed at step fail leaves live: no destructor
\* runs for an object whose constructor threw, and the body has no cleanup.
CtorLeftLive(i, fail) == StepHandles(i, fail)

\* Mutant: the loop index is stored as the accelerator identifier.
NewResource_DeviceIsIndex(p, i) ==
  [id |-> i,
   device_id |-> i - 1,
   comm |-> CommPtr(comms[p].base, i - 1)]

\* Mutant: every resource is handed comms_.get(), without the offset.
NewResource_ArrayBase(p, i) ==
  [id |-> i,
   device_id |-> device_list[p][i],
   comm |-> CommPtr(comms[p].base, 0)]

\* The GPUResource built for local index i (1-based) of process p.
NewResource(p, i) ==
  [id |-> i,
   device_id |-> device_list[p][i],
   comm |-> CommPtr(comms[p].base, i - 1)]

get_device_id(r) == r.device_id

get_nccl_ptr(r) == r.comm

\* Mutant: the handler logs and rethrows.
DtorCatch_Rethrow == [logged |-> 1, propagates |-> TRUE]

\* catch (const std::runtime_error&) { std::cerr << what; } in a destructor:
\* what happens to an exception thrown inside the try block.
DtorCatch == [logged |-> 1, propagates |-> FALSE]

\* ------------------------------------------------------------------ Init
Init ==
  /\ mpi \in BOOLEAN
  /\ n_ranks \in 1..MaxProcs
  /\ (~mpi) => n_ranks = 1
  /\ device_list \in [1..n_ranks -> DeviceLists]
  /\ visible \in [1..n_ranks -> 0..MaxDevCount]
  /\ dev_count = [p \in 1..n_ranks |-> 0]
  /\ pc = [p \in 1..n_ranks |-> "start"]
  /\ error = [p \in 1..n_ranks |-> NoError]
  /\ pool = [p \in 1..n_ranks |-> 0]
  /\ affinity = [p \in 1..n_ranks |-> 0]
  /\ comms = [p \in 1..n_ranks |-> NullComms]
  /\ nid = [p \in 1..n_ranks |-> 0]
  /\ bcast = <<>>
  /\ rendezvous = {}
  /\ gpu_resources = [p \in 1..n_ranks |-> <<>>]
  /\ handles = [p \in 1..n_ranks |-> {}]
  /\ held = [p \in 1..n_ranks |-> {}]
  /\ cerr = [p \in 1..n_ranks |-> 0]
  /\ escaped = [p \in 1..n_ranks |-> FALSE]
  /\ calls = [p \in 1..n_ranks |-> <<>>]
  /\ faults = 0

\* ----------------------------------------------- GPUResourceGroup: ctor
\* Mutant: the error is recorded but the constructor carries on.
CtorThrow_Continue(p, e, newcalls) ==
  /\ error' = [error EXCEPT ![p] = e]
  /\ pc' = pc
  /\ calls' = [calls EXCEPT ![p] = calls[p] \o newcalls]

\* An exception leaves the constructor body: the group never exists; its
\* members are destroyed in reverse declaration order (results,
\* train_thread_pool, gpu_resources_, device_map_, comms_).
CtorThrow(p, e, newcalls) ==
  /\ error' = [error EXCEPT ![p] = e]
  /\ pc' = [pc EXCEPT ![p] = "m_pool"]
  /\ calls' = [calls EXCEPT ![p] = calls[p] \o newcalls]

\* A library call of the constructor fails.
CtorFails(p, e, newcalls) ==
  /\ faults < MaxFaults
  /\ faults' = faults + 1
  /\ CtorThrow(p, e, newcalls)

\* Mutant: the worker pool is created empty.
CtorMembers_NoPool(p) ==
  /\ pc[p] = "start"
  /\ pool' = [pool EXCEPT ![p] = 0]
  /\ affinity' = [affinity EXCEPT ![p] = 0]
  /\ comms' = [comms EXCEPT ![p] = NullComms]
  /\ pc' = [pc EXCEPT ![p] = "validate"]
  /\ UNCHANGED <<config, dev_count, error, nid, bcast, rendezvous, gpu_resources, handles,
                 held, cerr, escaped, calls, faults>>

\* Member initialisers (comms_(nullptr), the pool of size() worker threads)
\* and the affinity loop: set_affinity for thread i, i < size().
CtorMembers(p) ==
  /\ pc[p] = "start"
  /\ pool' = [pool EXCEPT ![p] = Len(device_list[p])]
  /\ affinity' = [affinity EXCEPT ![p] = Len(device_list[p])]
  /\ comms' = [comms EXCEPT ![p] = NullComms]
  /\ pc' = [pc EXCEPT ![p] = "validate"]
  /\ UNCHANGED <<config, dev_count, error, nid, bcast, rendezvous, gpu_resources, handles,
                 held, cerr, escaped, calls, faults>>

\* Mutant: the check for an empty device list is missing.
MapError_NoEmptyCheck(p) ==
  IF Len(device_list[p]) # size(p)
    THEN Err("WrongInput", "local_gpu_count != size()", 0)
    ELSE NoError

\* The checks made before the device count is asked for, in source order.
MapError(p) ==
  LET local_gpu_count == Len(device_list[p])
  IN IF local_gpu_count = 0 THEN Err("WrongInput", "Empty device_list", 0)
     ELSE IF local_gpu_count # size(p)
       THEN Err("WrongInput", "local_gpu_count != size()", 0)
     ELSE NoError

\* int dev_count; cudaGetDeviceCount(&dev_count); the return value is not
\* looked at.  A succeeding call writes the host's count; a failing call
\* writes nothing and dev_count keeps the bytes it was declared with, any
\* int (for identifiers 0..MaxDevId every int compares like one of
\* 0..MaxDevCount).
DeviceCountResults(p) ==
  {[ok |-> TRUE, count |-> visible[p]]} \cup
  {[ok |-> FALSE, count |-> g] : g \in 0..MaxDevCount}

\* The range loop over device_list and the size check after it, with
\* dev_count holding count.
RangeError(p, count) ==
  LET dl == device_list[p]
      local_gpu_count == Len(dl)
      bad == {i \in DOMAIN dl : dl[i] >= count}
  IN IF bad # {}
       THEN Err("WrongInput", "Invalid device id",
                dl[CHOOSE i \in bad : \A j \in bad : i <= j])
     ELSE IF Len(device_list[p]) # local_gpu_count
       THEN Err("WrongInput", "device_map->get_device_list().size() != local_gpu_count", 0)
     ELSE NoError

\* The validation block of the constructor.
Validate(p) ==
  /\ pc[p] = "validate"
  /\ IF MapError(p) # NoError
       THEN /\ CtorThrow(p, MapError(p), <<>>)
            /\ UNCHANGED <<dev_count, faults>>
       ELSE \E r \in DeviceCountResults(p) :
              LET c == Call("GPUResourceGroup", "cudaGetDeviceCount", 0, r.count, r.ok)
                  e == RangeError(p, r.count)
              IN /\ r.ok \/ faults < MaxFaults
                 /\ faults' = IF r.ok THEN faults ELSE faults + 1
                 /\ dev_count' = [dev_count EXCEPT ![p] = r.count]
                 /\ IF e # NoError
                      THEN CtorThrow(p, e, <<c>>)
                      ELSE /\ pc' = [pc EXCEPT ![p] = "alloc"]
                           /\ calls' = [calls EXCEPT ![p] = Append(calls[p], c)]
                           /\ UNCHANGED error
  /\ UNCHANGED <<mpi, n_ranks, device_list, visible, pool, affinity, comms, nid, bcast,
                 rendezvous, gpu_resources, handles, held, cerr, escaped>>

\* comms_.reset(new ncclComm_t[local_gpu_count]())
AllocComms(p) ==
  /\ pc[p] = "alloc"
  /\ \/ /\ comms' = [comms EXCEPT ![p] =
                       [base |-> NewArrayAt(p),
                        slots |-> [i \in 1..Len(device_list[p]) |-> ZeroSlot]]]
        /\ calls' = [calls EXCEPT ![p] =
                       Append(calls[p], Call("GPUResourceGroup", "new[]", 0, Len(device_list[p]), TRUE))]
        /\ pc' = [pc EXCEPT ![p] = IF mpi THEN "mpi_rank" ELSE "initAll"]
        /\ UNCHANGED <<error, faults>>
     \/ /\ CtorFails(p, Err("bad_alloc", "std::bad_alloc", 0),
                     <<Call("GPUResourceGroup", "new[]", 0, Len(device_list[p]), FALSE)>>)
        /\ UNCHANGED comms
  /\ UNCHANGED <<config, dev_count, pool, affinity, nid, bcast, rendezvous, gpu_resources, handles,
                 held, cerr, escaped>>

\* Mutant: ncclCommInitAll is asked for one communicator only.
InitAllSlots_OnlyFirst(p) ==
  [i \in 1..Len(device_list[p]) |->
     IF i = 1
       THEN [st |-> "joined", rank |-> 0, nranks |-> 1, nid |-> 0,
             dev |-> device_list[p][1]]
       ELSE ZeroSlot]

\* The communicators ncclCommInitAll(comms, ndev, devlist) creates.
InitAllSlots(p) ==
  [i \in 1..Len(device_list[p]) |->
     [st |-> "joined", rank |-> i - 1, nranks |-> Len(device_list[p]),
      nid |-> 0, dev |-> device_list[p][i]]]

\* Build without ENABLE_MPI: ncclCommInitAll.
CommInitAll(p) ==
  /\ pc[p] = "initAll"
  /\ \/ /\ comms' = [comms EXCEPT ![p].slots = InitAllSlots(p)]
        /\ calls' = [calls EXCEPT ![p] =
                       Append(calls[p], Call("GPUResourceGroup", "ncclCommInitAll", 0, Len(device_list[p]), TRUE))]
        /\ pc' = [pc EXCEPT ![p] = "resources"]
        /\ UNCHANGED <<error, faults>>
     \/ /\ CtorFails(p, Err("NcclError", "ncclCommInitAll", 0),
                     <<Call("GPUResourceGroup", "ncclCommInitAll", 0, Len(device_list[p]), FALSE)>>)
        /\ UNCHANGED comms
  /\ UNCHANGED <<config, dev_count, pool, affinity, nid, bcast, rendezvous, gpu_resources, handles,
                 held, cerr, escaped>>

\* Mutant: the test for rank 0 is missing, every rank generates a token.
AfterRankSize_AllGenerate(p) == "getId"

\* if (my_rank == 0): only rank 0 goes on to ncclGetUniqueId, the other
\* ranks go straight to MPI_Bcast.
AfterRankSize(p) == IF p - 1 = 0 THEN "getId" ELSE "bcast"

\* ------------------------------------------- ENABLE_MPI bootstrap protocol
\* MPI_Comm_rank / MPI_Comm_size; the declaration of nid leaves it
\* uninitialised (any bytes).
MpiRankSize(p) ==
  /\ pc[p] = "mpi_rank"
  /\ \/ /\ \E garbage \in 0..MaxToken : nid' = [nid EXCEPT ![p] = garbage]
        /\ calls' = [calls EXCEPT ![p] = calls[p] \o
                       <<Call("GPUResourceGroup", "MPI_Comm_rank", 0, p - 1, TRUE),
                         Call("GPUResourceGroup", "MPI_Comm_size", 0, n_ranks, TRUE)>>]
        /\ pc' = [pc EXCEPT ![p] = AfterRankSize(p)]
        /\ UNCHANGED <<error, faults>>
     \/ /\ CtorFails(p, Err("MpiError", "MPI_Comm_rank", 0),
                     <<Call("GPUResourceGroup", "MPI_Comm_rank", 0, p - 1, FALSE)>>)
        /\ UNCHANGED nid
     \/ /\ CtorFails(p, Err("MpiError", "MPI_Comm_size", 0),
                     <<Call("GPUResourceGroup", "MPI_Comm_rank", 0, p - 1, TRUE),
                       Call("GPUResourceGroup", "MPI_Comm_size", 0, n_ranks, FALSE)>>)
        /\ UNCHANGED nid
  /\ UNCHANGED <<config, dev_count, pool, affinity, comms, bcast, rendezvous, gpu_resources, handles,
                 held, cerr, escaped>>

\* if (my_rank == 0) ncclGetUniqueId(&nid)
GetUniqueId(p) ==
  /\ pc[p] = "getId"
  /\ \/ /\ \E token \in 1..MaxToken :
             /\ nid' = [nid EXCEPT ![p] = token]
             /\ calls' = [calls EXCEPT ![p] =
                            Append(calls[p], Call("GPUResourceGroup", "ncclGetUniqueId", 0, token, TRUE))]
        /\ pc' = [pc EXCEPT ![p] = "bcast"]
        /\ UNCHANGED <<error, faults>>
     \/ /\ CtorFails(p, Err("NcclError", "ncclGetUniqueId", 0),
                     <<Call("GPUResourceGroup", "ncclGetUniqueId", 0, 0, FALSE)>>)
        /\ UNCHANGED nid
  /\ UNCHANGED <<config, dev_count, pool, affinity, comms, bcast, rendezvous, gpu_resources, handles,
                 held, cerr, escaped>>

\* Mutant: the receive buffer is not filled in.
BcastResult_NoCopy(p) == nid[p]

\* What MPI_Bcast(&nid, sizeof(nid), MPI_BYTE, 0, MPI_COMM_WORLD) leaves in
\* nid: the root's buffer is unchanged, every other rank receives the
\* root's bytes.
BcastResult(p) == IF p - 1 = 0 THEN nid[p] ELSE bcast[1]

\* MPI_Bcast: the root sends; another rank returns once the root has sent.
MPI_Bcast(p) ==
  /\ pc[p] = "bcast"
  /\ \/ /\ p - 1 = 0 \/ bcast # <<>>
        /\ nid' = [nid EXCEPT ![p] = BcastResult(p)]
        /\ bcast' = IF p - 1 = 0 THEN <<nid[p]>> ELSE bcast
        /\ calls' = [calls EXCEPT ![p] =
                       Append(calls[p], Call("GPUResourceGroup", "MPI_Bcast", 0, BcastResult(p), TRUE))]
        /\ pc' = [pc EXCEPT ![p] = "groupStart"]
        /\ UNCHANGED <<error, faults>>
     \/ /\ CtorFails(p, Err("MpiError", "MPI_Bcast", 0),
                     <<Call("GPUResourceGroup", "MPI_Bcast", 0, 0, FALSE)>>)
        /\ UNCHANGED <<nid, bcast>>
  /\ UNCHANGED <<config, dev_count, pool, affinity, comms, rendezvous, gpu_resources, handles,
                 held, cerr, escaped>>

\* ncclGroupStart()
GroupStart(p) ==
  /\ pc[p] = "groupStart"
  /\ \/ /\ calls' = [calls EXCEPT ![p] =
                       Append(calls[p], Call("GPUResourceGroup", "ncclGroupStart", 0, 0, TRUE))]
        /\ pc' = [pc EXCEPT ![p] = "join"]
        /\ UNCHANGED <<error, faults>>
     \/ CtorFails(p, Err("NcclError", "ncclGroupStart", 0),
                  <<Call("GPUResourceGroup", "ncclGroupStart", 0, 0, FALSE)>>)
  /\ UNCHANGED <<config, dev_count, pool, affinity, comms, nid, bcast, rendezvous, gpu_resources,
                 handles, held, cerr, escaped>>

\* The loop variable i (1-based): the first slot not yet handed to NCCL.
JoinIndex(p) ==
  Cardinality({k \in DOMAIN comms[p].slots : comms[p].slots[k].st # "zero"}) + 1

\* Mutant: the local accelerator count and the local index are passed as
\* group size and rank.
InitRankSlot_LocalGroup(p, i) ==
  [st |-> "pending",
   rank |-> i - 1,
   nranks |-> Len(device_list[p]),
   nid |-> nid[p],
   dev |-> device_list[p][i]]

\* Mutant: the process's own accelerator count is passed as the group size.
InitRankSlot_LocalCount(p, i) ==
  [st |-> "pending",
   rank |-> get_global_id(p, device_list[p][i]),
   nranks |-> Len(device_list[p]),
   nid |-> nid[p],
   dev |-> device_list[p][i]]

\* Mutant: the accelerator identifier is passed as the rank.
InitRankSlot_RankIsDevice(p, i) ==
  [st |-> "pending",
   rank |-> device_list[p][i],
   nranks |-> total_gpu_count,
   nid |-> nid[p],
   dev |-> device_list[p][i]]

\* Mutant: the local index is passed as the rank.
InitRankSlot_LocalRank(p, i) ==
  [st |-> "pending",
   rank |-> i - 1,
   nranks |-> total_gpu_count,
   nid |-> nid[p],
   dev |-> device_list[p][i]]

\* The slot ncclCommInitRank(comms_.get() + i, total_gpu_count, nid,
\* get_global_id(device_list[i])) fills; inside ncclGroupStart/End the join
\* itself is carried out by ncclGroupEnd.  The declaration of
\* total_gpu_count is commented out in the header; it is read as
\* get_total_gpu_count(), as that comment has it.
InitRankSlot(p, i) ==
  [st |-> "pending",
   rank |-> get_global_id(p, device_list[p][i]),
   nranks |-> total_gpu_count,
   nid |-> nid[p],
   dev |-> device_list[p][i]]

\* One iteration of the join loop: cudaSetDevice, ncclCommInitRank.
CommInitRank(p) ==
  /\ pc[p] = "join"
  /\ LET i == JoinIndex(p)
         dev == device_list[p][i]
         slot == InitRankSlot(p, i)
     IN \/ /\ comms' = [comms EXCEPT ![p].slots[i] = slot]
           /\ calls' = [calls EXCEPT ![p] = calls[p] \o
                          <<Call("GPUResourceGroup", "cudaSetDevice", i, dev, TRUE),
                            Call("GPUResourceGroup", "ncclCommInitRank", i, slot.rank, TRUE)>>]
           /\ pc' = [pc EXCEPT ![p] =
                       IF i = Len(device_list[p]) THEN "groupEnd" ELSE "join"]
           /\ UNCHANGED <<error, faults>>
        \/ /\ CtorFails(p, Err("CudaError", "cudaSetDevice", i),
                        <<Call("GPUResourceGroup", "cudaSetDevice", i, dev, FALSE)>>)
           /\ UNCHANGED comms
        \/ /\ CtorFails(p, Err("NcclError", "ncclCommInitRank", i),
                        <<Call("GPUResourceGroup", "cudaSetDevice", i, dev, TRUE),
                          Call("GPUResourceGroup", "ncclCommInitRank", i, slot.rank, FALSE)>>)
           /\ UNCHANGED comms
  /\ UNCHANGED <<config, dev_count, pool, affinity, nid, bcast, rendezvous, gpu_resources, handles,
                 held, cerr, escaped>>

\* The ranks process p brings to the rendezvous.
Arrivals(p) ==
  {[nid |-> s.nid, rank |-> s.rank, nranks |-> s.nranks] :
     s \in {t \in Range(comms[p].slots) : t.st = "pending"}}

\* ncclGroupEnd() is entered: the queued joins are issued.
GroupEnd(p) ==
  /\ pc[p] = "groupEnd"
  /\ rendezvous' = rendezvous \cup Arrivals(p)
  /\ pc' = [pc EXCEPT ![p] = "groupWait"]
  /\ UNCHANGED <<config, dev_count, error, pool, affinity, comms, nid, bcast, gpu_resources, handles,
                 held, cerr, escaped, calls, faults>>

\* For every join p has queued, every rank 0..nranks-1 of that join's
\* collective group (the identity and the group size the join was given)
\* has arrived.
RendezvousComplete(p) ==
  \A s \in {t \in Range(comms[p].slots) : t.st = "pending"} :
    \A r \in 0..(s.nranks - 1) :
      [nid |-> s.nid, rank |-> r, nranks |-> s.nranks] \in rendezvous

\* ncclGroupEnd() returns: the joins complete together, or it reports failure.
GroupEndReturn(p) ==
  /\ pc[p] = "groupWait"
  /\ \/ /\ RendezvousComplete(p)
        /\ comms' = [comms EXCEPT ![p].slots =
                       [k \in DOMAIN comms[p].slots |->
                          [comms[p].slots[k] EXCEPT !.st = "joined"]]]
        /\ calls' = [calls EXCEPT ![p] =
                       Append(calls[p], Call("GPUResourceGroup", "ncclGroupEnd", 0, 0, TRUE))]
        /\ pc' = [pc EXCEPT ![p] = "resources"]
        /\ UNCHANGED <<error, faults>>
     \/ /\ CtorFails(p, Err("NcclError", "ncclGroupEnd", 0),
                     <<Call("GPUResourceGroup", "ncclGroupEnd", 0, 0, FALSE)>>)
        /\ UNCHANGED comms
  /\ UNCHANGED <<config, dev_count, pool, affinity, nid, bcast, rendezvous, gpu_resources, handles,
                 held, cerr, escaped>>

\* ------------------------------------------------- building the resources
\* gpu_resources_.emplace_back(new GPUResource(device_list[i], comms_.get() + i)):
\* GPUResource's constructor runs its steps; a failing step throws out of it
\* and out of the group's constructor.
NewGPUResource(p) ==
  /\ pc[p] = "resources"
  /\ LET i == Len(gpu_resources[p]) + 1
     IN \E fail \in 0..NoFail :
          IF fail = NoFail
            THEN /\ handles' = [handles EXCEPT ![p] = handles[p] \cup StepHandles(i, NoFail)]
                 /\ gpu_resources' = [gpu_resources EXCEPT ![p] =
                                        Append(gpu_resources[p], NewResource(p, i))]
                 /\ calls' = [calls EXCEPT ![p] = calls[p] \o StepCalls("GPUResource", CreateApi, i, NoFail)]
                 /\ pc' = [pc EXCEPT ![p] =
                             IF i = Len(device_list[p]) THEN "alive" ELSE "resources"]
                 /\ UNCHANGED <<error, faults>>
            ELSE /\ handles' = [handles EXCEPT ![p] = handles[p] \cup CtorLeftLive(i, fail)]
                 /\ CtorFails(p, Err(StepError[fail + 1], CreateApi[fail + 1], i),
                              StepCalls("GPUResource", CreateApi, i, fail))
                 /\ UNCHANGED gpu_resources
  /\ UNCHANGED <<config, dev_count, pool, affinity, comms, nid, bcast, rendezvous, held, cerr, escaped>>

\* ---------------------------------------------------------- destruction
\* ~GPUResource() of resource r, its step fail failing (NoFail: none): the
\* steps before fail destroy their handle, the exception is caught.
ResourceDtor(p, r, fail) ==
  /\ fail = NoFail \/ faults < MaxFaults
  /\ handles' = [handles EXCEPT ![p] = handles[p] \ StepHandles(r.id, fail)]
  /\ calls' = [calls EXCEPT ![p] = calls[p] \o StepCalls("~GPUResource", DestroyApi, r.id, fail)]
  /\ cerr' = [cerr EXCEPT ![p] = IF fail = NoFail THEN cerr[p] ELSE cerr[p] + DtorCatch.logged]
  /\ escaped' = [escaped EXCEPT ![p] = IF fail = NoFail THEN escaped[p] ELSE DtorCatch.propagates]
  /\ faults' = IF fail = NoFail THEN faults ELSE faults + 1

\* Mutant: the teardown loop also runs for a single accelerator.
TeardownWanted_AtLeastOne(p) == Len(gpu_resources[p]) >= 1

\* if (gpu_resources_.size() > 1) in ~GPUResourceGroup().
TeardownWanted(p) == Len(gpu_resources[p]) > 1

\* The ncclCommDestroy calls of the destructor's loop over n slots when the
\* call for slot fail fails (fail = n + 1: none does).
CommDestroyCalls(n, fail) ==
  [k \in 1..Min(fail, n) |-> Call("~GPUResourceGroup", "ncclCommDestroy", k, 0, k < fail)]

\* ~GPUResourceGroup(): the body.
DtorBody(p) ==
  /\ pc[p] = "alive"
  /\ LET n == Len(gpu_resources[p])
     IN IF TeardownWanted(p)
          THEN \E fail \in 1..(n + 1) :
                 /\ fail = n + 1 \/ faults < MaxFaults
                 /\ comms' = [comms EXCEPT ![p].slots =
                                [k \in DOMAIN comms[p].slots |->
                                   IF k < fail /\ k <= n
                                     THEN [comms[p].slots[k] EXCEPT !.st = "destroyed"]
                                     ELSE comms[p].slots[k]]]
                 /\ calls' = [calls EXCEPT ![p] = calls[p] \o CommDestroyCalls(n, fail)]
                 /\ cerr' = [cerr EXCEPT ![p] =
                               IF fail = n + 1 THEN cerr[p] ELSE cerr[p] + DtorCatch.logged]
                 /\ escaped' = [escaped EXCEPT ![p] =
                                  IF fail = n + 1 THEN escaped[p] ELSE DtorCatch.propagates]
                 /\ faults' = IF fail = n + 1 THEN faults ELSE faults + 1
          ELSE UNCHANGED <<comms, calls, cerr, escaped, faults>>
  /\ pc' = [pc EXCEPT ![p] = "m_pool"]
  /\ UNCHANGED <<config, dev_count, error, pool, affinity, nid, bcast, rendezvous, gpu_resources,
                 handles, held>>

\* Member destruction, first results and train_thread_pool.
DestroyPool(p) ==
  /\ pc[p] = "m_pool"
  /\ pool' = [pool EXCEPT ![p] = 0]
  /\ affinity' = [affinity EXCEPT ![p] = 0]
  /\ pc' = [pc EXCEPT ![p] = "m_res"]
  /\ UNCHANGED <<config, dev_count, error, comms, nid, bcast, rendezvous, gpu_resources,
                 handles, held, cerr, escaped, calls, faults>>

\* Mutant: the vector's elements are dropped without running ~GPUResource().
DestroyResourceElem_NoDtor(p) ==
  /\ pc[p] = "m_res"
  /\ gpu_resources[p] # <<>>
  /\ gpu_resources' = [gpu_resources EXCEPT ![p] = Tail(gpu_resources[p])]
  /\ UNCHANGED <<config, dev_count, pc, error, pool, affinity, comms, nid, bcast, rendezvous, held,
                 handles, calls, cerr, escaped, faults>>

\* gpu_resources_ is destroyed: one shared_ptr of the vector is released
\* (the library decides from which end); the GPUResource is destroyed with
\* it unless a caller still holds a copy.
DestroyResourceElem(p) ==
  /\ pc[p] = "m_res"
  /\ gpu_resources[p] # <<>>
  /\ \E front \in BOOLEAN :
       LET v == gpu_resources[p]
           r == IF front THEN Head(v) ELSE v[Len(v)]
           rest == IF front THEN Tail(v) ELSE SubSeq(v, 1, Len(v) - 1)
       IN /\ gpu_resources' = [gpu_resources EXCEPT ![p] = rest]
          /\ IF r \in held[p]
               THEN UNCHANGED <<handles, calls, cerr, escaped, faults>>
               ELSE \E fail \in 0..NoFail : ResourceDtor(p, r, fail)
  /\ UNCHANGED <<config, dev_count, pc, error, pool, affinity, comms, nid, bcast, rendezvous, held>>

\* comms_ (unique_ptr<ncclComm_t[]>) is destroyed last: delete[].
FreeComms(p) ==
  /\ pc[p] = "m_res"
  /\ gpu_resources[p] = <<>>
  /\ comms' = [comms EXCEPT ![p] = NullComms]
  /\ pc' = [pc EXCEPT ![p] = IF error[p] = NoError THEN "destroyed" ELSE "failed"]
  /\ UNCHANGED <<config, dev_count, error, pool, affinity, nid, bcast, rendezvous, gpu_resources,
                 handles, held, cerr, escaped, calls, faults>>

\* ---------------------------------------------------------------- callers
\* operator[](idx): a caller copies the shared_ptr at local index i.
CallerIndex(p, i) ==
  /\ pc[p] = "alive"
  /\ i \in 1..Len(gpu_resources[p])
  /\ Cardinality(held[p]) < MaxHeld
  /\ held' = [held EXCEPT ![p] = held[p] \cup {gpu_resources[p][i]}]
  /\ UNCHANGED <<config, dev_count, pc, error, pool, affinity, comms, nid, bcast, rendezvous,
                 gpu_resources, handles, cerr, escaped, calls, faults>>

\* A caller drops its copy; the last owner destroys the GPUResource.
CallerRelease(p, r) ==
  /\ r \in held[p]
  /\ held' = [held EXCEPT ![p] = held[p] \ {r}]
  /\ IF r \in Range(gpu_resources[p])
       THEN UNCHANGED <<handles, calls, cerr, escaped, faults>>
       ELSE \E fail \in 0..NoFail : ResourceDtor(p, r, fail)
  /\ UNCHANGED <<config, dev_count, pc, error, pool, affinity, comms, nid, bcast, rendezvous,
                 gpu_resources>>

Next ==
  \/ \E p \in Procs : CtorMembers(p)
  \/ \E p \in Procs : Validate(p)
  \/ \E p \in Procs : AllocComms(p)
  \/ \E p \in Procs : CommInitAll(p)
  \/ \E p \in Procs : MpiRankSize(p)
  \/ \E p \in Procs : GetUniqueId(p)
  \/ \E p \in Procs : MPI_Bcast(p)
  \/ \E p \in Procs : GroupStart(p)
  \/ \E p \in Procs : CommInitRank(p)
  \/ \E p \in Procs : GroupEnd(p)
  \/ \E p \in Procs : GroupEndReturn(p)
  \/ \E p \in Procs : NewGPUResource(p)
  \/ \E p \in Procs : DtorBody(p)
  \/ \E p \in Procs : DestroyPool(p)
  \/ \E p \in Procs : DestroyResourceElem(p)
  \/ \E p \in Procs : FreeComms(p)
  \/ \E p \in Procs : \E i \in 1..MaxLocal : CallerIndex(p, i)
  \/ \E p \in Procs : \E r \in held[p] : CallerRelease(p, r)

Spec == Init /\ [][Next]_vars

\* ================================================================ claims
\* Helpers of the claims.
CallsOf(p) == Range(calls[p])

FailedCallsBy(p, who) == {c \in CallsOf(p) : ~c.ok /\ c.by \in who}

NCalls(p, api, i) ==
  Cardinality({k \in DOMAIN calls[p] : calls[p][k].api = api /\ calls[p][k].idx = i})

BeforeValidation(p) == pc[p] \in {"start", "validate"}

Unwinding(p) == pc[p] \in {"m_pool", "m_res", "failed"}

\* The group was built and its destructor's body has run.
DtorBodyDone(p) == error[p] = NoError /\ pc[p] \in {"m_pool", "m_res", "destroyed"}

\* The list names an accelerator identifier >= the host's visible count.
InvalidId(p) ==
  device_list[p] # <<>> /\ \E i \in DOMAIN device_list[p] : device_list[p][i] >= visible[p]

\* Every listed identifier is below the host's visible count, N >= 1.
ValidMap(p) == device_list[p] # <<>> /\ ~InvalidId(p)

\* The calls a rejected device list has made: at most the device count query.
OnlyCountQuery(p) ==
  \A c \in CallsOf(p) : c.api = "cudaGetDeviceCount"

\* C1: a group whose construction has completed holds exactly N resources
\* (N the length of the device map's local list), size() is N, the resource
\* at index i reports the accelerator at position i of the list; and the
\* construction is abandoned only when the map is invalid or a step failed.
C1_OneResourcePerListedDevice ==
  \A p \in Procs :
    /\ pc[p] = "alive" =>
         /\ Len(gpu_resources[p]) = Len(device_list[p])
         /\ size(p) = Len(gpu_resources[p])
         /\ \A i \in 1..Len(device_list[p]) :
              get_device_id(gpu_resources[p][i]) = device_list[p][i]
    /\ error[p] # NoError =>
         \/ device_list[p] = <<>>
         \/ InvalidId(p)
         \/ FailedCallsBy(p, {"GPUResourceGroup", "GPUResource"}) # {}

C1_Witness ==
  \E p \in Procs :
    /\ pc[p] = "alive"
    /\ device_list[p] = <<1, 0>>
    /\ Len(gpu_resources[p]) = 2
    /\ get_device_id(gpu_resources[p][1]) = 1

\* What C2 promises for process p once its validation block has run.
RejectedBeforeAcquisition(p) ==
  /\ error[p].type = "WrongInput"
  /\ error[p].msg = "Invalid device id"
  /\ error[p].arg >= visible[p]
  /\ Unwinding(p)
  /\ OnlyCountQuery(p)
  /\ comms[p] = NullComms
  /\ handles[p] = {}
  /\ gpu_resources[p] = <<>>

\* C2: a device list with an identifier >= the visible accelerator count is
\* rejected with "Invalid device id" (WrongInput) before anything is
\* acquired: no call other than the device count query has been made (no
\* array allocation, no broadcast, no join, no handle or stream creation),
\* comms_ is nullptr, no resource exists.
C2_InvalidIdFailsBeforeAcquisition ==
  \A p \in Procs :
    (InvalidId(p) /\ ~BeforeValidation(p)) => RejectedBeforeAcquisition(p)

\* The same, for the runs in which cudaGetDeviceCount succeeds.
C2_HoldsWhenCountSucceeds ==
  \A p \in Procs :
    (InvalidId(p) /\ ~BeforeValidation(p)
       /\ \A c \in CallsOf(p) : c.api = "cudaGetDeviceCount" => c.ok) =>
      RejectedBeforeAcquisition(p)

\* C3: an empty device list is rejected with "Empty device_list"
\* (WrongInput) and no native resource is created: no call is made, comms_
\* stays nullptr, no handle and no resource exists.
C3_EmptyListFails ==
  \A p \in Procs :
    (device_list[p] = <<>> /\ ~BeforeValidation(p)) =>
      /\ error[p] = Err("WrongInput", "Empty device_list", 0)
      /\ Unwinding(p)
      /\ calls[p] = <<>>
      /\ comms[p] = NullComms
      /\ handles[p] = {}
      /\ gpu_resources[p] = <<>>

C3_Witness ==
  \E p \in Procs :
    /\ device_list[p] = <<>>
    /\ pc[p] = "failed"
    /\ error[p].msg = "Empty device_list"

\* ncclCommDestroy calls made for slot i of process p.
DestroyCount(p, i) == NCalls(p, "ncclCommDestroy", i)

\* A destroy call for a slot before i reported failure.
DestroyFailedBefore(p, i) ==
  \E c \in CallsOf(p) : c.api = "ncclCommDestroy" /\ ~c.ok /\ c.idx < i

\* C4 as claimed: after the destructor of a one-accelerator group no
\* communicator teardown has been invoked; after the destructor of a larger
\* group it has been invoked exactly once for every slot, whether or not a
\* destroy call reported failure.
C4_AsClaimed ==
  \A p \in Procs :
    DtorBodyDone(p) =>
      \A i \in 1..size(p) : DestroyCount(p, i) = IF size(p) = 1 THEN 0 ELSE 1

\* C4 amended: a one-accelerator group invokes no communicator teardown; a
\* larger group invokes it in index order, at most once per slot, for every
\* slot up to and including the first whose destroy call reports failure
\* and for no slot after it (so exactly once per slot when none fails).
C4_TeardownUpToFirstFailure ==
  \A p \in Procs :
    DtorBodyDone(p) =>
      \A i \in 1..size(p) :
        DestroyCount(p, i) =
          IF size(p) > 1 /\ ~DestroyFailedBefore(p, i) THEN 1 ELSE 0

C4_Witness ==
  \E p \in Procs :
    /\ DtorBodyDone(p)
    /\ size(p) = 2
    /\ DestroyCount(p, 1) = 1
    /\ DestroyFailedBefore(p, 2)
    /\ DestroyCount(p, 2) = 0

\* C5: after the destructor of a group that is part of a collective group of
\* more than one accelerator (total count over all processes), a destroy
\* call has been made for every slot of the process; stated for the
\* teardowns in which no destroy call reports failure.
C5_EverySlotDestroyed ==
  \A p \in Procs :
    (/\ DtorBodyDone(p)
     /\ get_total_gpu_count > 1
     /\ FailedCallsBy(p, {"~GPUResourceGroup"}) = {}) =>
      \A i \in 1..size(p) : DestroyCount(p, i) >= 1

\* Tokens rank 0 has generated with ncclGetUniqueId.
GeneratedTokens ==
  {c.arg : c \in {d \in CallsOf(1) : d.api = "ncclGetUniqueId" /\ d.ok}}

\* MPI_Bcast has returned in process p.
AfterBcast(p) == \E c \in CallsOf(p) : c.api = "MPI_Bcast" /\ c.ok

\* C6: with ENABLE_MPI, rank 0 generates one token; every process whose
\* broadcast has returned holds exactly that token, so all of them hold the
\* same one; every join handed to NCCL and every arrival at the rendezvous
\* carries it.
C6_TokenAgreement ==
  mpi =>
    /\ Cardinality(GeneratedTokens) <= 1
    /\ \A p \in Procs :
         /\ AfterBcast(p) =>
              /\ GeneratedTokens = {nid[p]}
              /\ \A q \in Procs : AfterBcast(q) => nid[q] = nid[p]
         /\ \A k \in DOMAIN comms[p].slots :
              comms[p].slots[k].st # "zero" => comms[p].slots[k].nid \in GeneratedTokens
    /\ \A a \in rendezvous : a.nid \in GeneratedTokens

C6_Witness ==
  /\ mpi
  /\ n_ranks = 2
  /\ \A p \in Procs : AfterBcast(p) /\ pc[p] = "alive"
  /\ nid[2] \in GeneratedTokens

\* The slot (1-based) of process p's array that pointer ptr denotes.
SlotOf(p, ptr) == ptr - comms[p].base + 1

\* C7: in a single process with more than one accelerator, once the group
\* is built every resource's communicator pointer is non-null, the pointers
\* are pairwise distinct, and the resource at local index i points at slot
\* i of the group's array, which holds a joined communicator.
C7_CommPointers ==
  \A p \in Procs :
    (n_ranks = 1 /\ pc[p] = "alive" /\ size(p) > 1) =>
      /\ \A i \in 1..size(p) :
           /\ get_nccl_ptr(gpu_resources[p][i]) # NULL
           /\ SlotOf(p, get_nccl_ptr(gpu_resources[p][i])) = i
           /\ comms[p].slots[i].st = "joined"
      /\ \A i, j \in 1..size(p) :
           i # j => get_nccl_ptr(gpu_resources[p][i]) # get_nccl_ptr(gpu_resources[p][j])

C7_Witness ==
  \E p \in Procs :
    /\ ~mpi
    /\ pc[p] = "alive"
    /\ size(p) = 2
    /\ get_nccl_ptr(gpu_resources[p][2]) = CommPtr(comms[p].base, 1)

\* The constructor of resource i of process p threw.
ResourceCtorFailed(p, i) ==
  \E c \in CallsOf(p) : c.by = "GPUResource" /\ c.idx = i /\ ~c.ok

\* C8: once the failure of a GPUResource constructor has propagated (the
\* group's construction has been abandoned and unwound), no handle or stream
\* created by that constructor is live.
C8_FailedCtorLeavesNoHandle ==
  \A p \in Procs :
    pc[p] = "failed" =>
      \A i \in 1..size(p) :
        ResourceCtorFailed(p, i) => \A k \in 1..NumHandles : <<i, k>> \notin handles[p]

\* C9: a failing step of the construction (a validation check, a broadcast,
\* a join, a handle or stream creation) abandons the construction with an
\* error; from then on the group is never usable (it is unwound and stays
\* failed), no caller holds a resource, and when the unwinding is over no
\* resource is left in the group.
C9_FailureAbortsConstruction ==
  \A p \in Procs :
    /\ (FailedCallsBy(p, {"GPUResourceGroup", "GPUResource"}) # {}) => error[p] # NoError
    /\ ((device_list[p] = <<>> \/ InvalidId(p)) /\ ~BeforeValidation(p)) => error[p] # NoError
    /\ error[p] # NoError =>
         /\ Unwinding(p)
         /\ held[p] = {}
         /\ Len(gpu_resources[p]) < size(p) \/ size(p) = 0
         /\ pc[p] = "failed" => gpu_resources[p] = <<>> /\ comms[p] = NullComms

\* The same, leaving aside the one call whose result the constructor does
\* not look at (cudaGetDeviceCount) and the lists it lets through.
C9_HoldsForCheckedCalls ==
  \A p \in Procs :
    /\ ({c \in FailedCallsBy(p, {"GPUResourceGroup", "GPUResource"}) :
           c.api # "cudaGetDeviceCount"} # {}) => error[p] # NoError
    /\ ((device_list[p] = <<>> \/ InvalidId(p)) /\ ~BeforeValidation(p)
          /\ \A c \in CallsOf(p) : c.api = "cudaGetDeviceCount" => c.ok) => error[p] # NoError
    /\ error[p] # NoError =>
         /\ Unwinding(p)
         /\ held[p] = {}
         /\ Len(gpu_resources[p]) < size(p) \/ size(p) = 0
         /\ pc[p] = "failed" => gpu_resources[p] = <<>> /\ comms[p] = NullComms

C9_Witness ==
  \E p \in Procs :
    /\ pc[p] = "failed"
    /\ error[p].type = "CudnnError"
    /\ error[p].arg = 2
    /\ ResourceCtorFailed(p, 2)

\* C10: no exception leaves ~GPUResource or ~GPUResourceGroup: every
\* failing destroy step is caught and written to std::cerr (one message per
\* failing destructor run), and the destruction then goes on to its end.
C10_DtorFailuresSwallowed ==
  \A p \in Procs :
    /\ ~escaped[p]
    /\ cerr[p] = Cardinality(FailedCallsBy(p, {"~GPUResource", "~GPUResourceGroup"}))

C10_Witness ==
  \E p \in Procs :
    /\ pc[p] = "destroyed"
    /\ cerr[p] = 1
    /\ FailedCallsBy(p, {"~GPUResource", "~GPUResourceGroup"}) # {}

\* Resources that exist in process p: those of the group and those callers hold.
LiveResources(p) == Range(gpu_resources[p]) \cup held[p]

\* Position in calls[p] of the first call that matches, 0 when there is none.
FirstCall(p, bys, apis, okOnly) ==
  LET hits == {k \in DOMAIN calls[p] :
                 /\ calls[p][k].by \in bys
                 /\ calls[p][k].api \in apis
                 /\ okOnly => calls[p][k].ok}
  IN IF hits = {} THEN 0 ELSE CHOOSE k \in hits : \A j \in hits : k <= j

\* C11: while resources are being built and while the group is in use every
\* slot of the communicator array holds a joined communicator; the first
\* step of the first GPUResource constructor comes after the call that
\* completed the joins (ncclCommInitAll, or ncclGroupEnd); and no existing
\* resource ever points at a slot that was not joined.
C11_ArrayPopulatedBeforeResources ==
  \A p \in Procs :
    /\ pc[p] \in {"resources", "alive"} =>
         \A k \in 1..size(p) : comms[p].slots[k].st = "joined"
    /\ FirstCall(p, {"GPUResource"}, Range(CreateApi), FALSE) # 0 =>
         /\ FirstCall(p, {"GPUResourceGroup"}, {"ncclCommInitAll", "ncclGroupEnd"}, TRUE) # 0
         /\ FirstCall(p, {"GPUResourceGroup"}, {"ncclCommInitAll", "ncclGroupEnd"}, TRUE)
              < FirstCall(p, {"GPUResource"}, Range(CreateApi), FALSE)
    /\ \A r \in LiveResources(p) :
         comms[p].base # NULL =>
           /\ SlotOf(p, get_nccl_ptr(r)) \in DOMAIN comms[p].slots
           /\ comms[p].slots[SlotOf(p, get_nccl_ptr(r))].st \in {"joined", "destroyed"}

C11_Witness ==
  \E p \in Procs :
    /\ mpi
    /\ pc[p] = "resources"
    /\ size(p) = 2
    /\ Len(gpu_resources[p]) = 1
    /\ comms[p].slots[2].st = "joined"

\* Calls of api that process p has made (any index, failed or not).
NCallsOfApi(p, api) == Cardinality({k \in DOMAIN calls[p] : calls[p][k].api = api})

JoinApis == {"ncclGroupStart", "cudaSetDevice", "ncclCommInitRank", "ncclGroupEnd"}

\* C12: with ENABLE_MPI, a process opens the grouped join and issues joins
\* only after its MPI_Bcast has returned with the token; only rank 0 ever
\* calls ncclGetUniqueId (and at most once); a process calls MPI_Bcast at
\* most once, and exactly once by the time it is past the broadcast.
C12_BroadcastBeforeJoin ==
  mpi =>
    \A p \in Procs :
      /\ p - 1 # 0 => NCallsOfApi(p, "ncclGetUniqueId") = 0
      /\ NCallsOfApi(p, "ncclGetUniqueId") <= 1
      /\ NCallsOfApi(p, "MPI_Bcast") <= 1
      /\ FirstCall(p, {"GPUResourceGroup"}, JoinApis, FALSE) # 0 =>
           /\ AfterBcast(p)
           /\ FirstCall(p, {"GPUResourceGroup"}, {"MPI_Bcast"}, TRUE)
                < FirstCall(p, {"GPUResourceGroup"}, JoinApis, FALSE)
      /\ pc[p] \in {"groupStart", "join", "groupEnd", "groupWait", "resources", "alive"} =>
           /\ NCallsOfApi(p, "MPI_Bcast") = 1
           /\ AfterBcast(p)
           /\ nid[p] \in GeneratedTokens
      /\ \A k \in DOMAIN comms[p].slots : comms[p].slots[k].st # "zero" => AfterBcast(p)

C12_Witness ==
  /\ mpi
  /\ n_ranks = 2
  /\ pc[2] = "join"
  /\ AfterBcast(2)
  /\ comms[2].slots[1].st = "pending"
  /\ NCallsOfApi(1, "ncclGetUniqueId") = 1

\* The grouped-join calls of process p, in the order made.
JoinLog(p) == SelectSeq(calls[p], LAMBDA c : c.api \in JoinApis)

\* Global index of the accelerator at local position i (1-based) of process
\* p: the accelerators of the processes before p come first.
GlobalIndex(p, i) == SumLen(device_list, p - 1) + i - 1

\* The grouped join as claimed: open, then for i = 1..N select
\* device_list[i] and join slot i with the global index as rank, then close.
ExpectedJoinCalls(p) ==
  [k \in 1..(2 * size(p) + 2) |->
     IF k = 1 THEN Call("GPUResourceGroup", "ncclGroupStart", 0, 0, TRUE)
     ELSE IF k = 2 * size(p) + 2 THEN Call("GPUResourceGroup", "ncclGroupEnd", 0, 0, TRUE)
     ELSE IF k % 2 = 0
       THEN Call("GPUResourceGroup", "cudaSetDevice", k \div 2, device_list[p][k \div 2], TRUE)
     ELSE Call("GPUResourceGroup", "ncclCommInitRank", k \div 2, GlobalIndex(p, k \div 2), TRUE)]

\* Slots handed to NCCL, as <<process, slot>>.
JoinedSlots ==
  {ps \in UNION {{<<p, k>> : k \in DOMAIN comms[p].slots} : p \in Procs} :
     comms[ps[1]].slots[ps[2]].st # "zero"}

\* C13: with ENABLE_MPI the grouped-join calls of a process are, in order, a
\* prefix of: ncclGroupStart, then for i = 1..N cudaSetDevice(device_list[i])
\* and ncclCommInitRank for slot i with rank = global index, then
\* ncclGroupEnd (only the last call made may have failed); every slot handed
\* to NCCL carries that rank, the total accelerator count as group size and
\* its accelerator; the ranks supplied by all processes are pairwise
\* distinct, and cover 0..total-1 once every process has issued its joins.
C13_JoinOrderAndRanks ==
  mpi =>
    /\ \A p \in Procs :
         /\ Len(JoinLog(p)) <= Len(ExpectedJoinCalls(p))
         /\ \A k \in DOMAIN JoinLog(p) :
              \/ JoinLog(p)[k] = ExpectedJoinCalls(p)[k]
              \/ /\ k = Len(JoinLog(p))
                 /\ JoinLog(p)[k] = [ExpectedJoinCalls(p)[k] EXCEPT !.ok = FALSE]
         /\ \A k \in DOMAIN comms[p].slots :
              comms[p].slots[k].st # "zero" =>
                /\ comms[p].slots[k].rank = GlobalIndex(p, k)
                /\ comms[p].slots[k].nranks = get_total_gpu_count
                /\ comms[p].slots[k].dev = device_list[p][k]
                /\ \A j \in 1..k : comms[p].slots[j].st # "zero"
    /\ \A a, b \in JoinedSlots :
         a # b => comms[a[1]].slots[a[2]].rank # comms[b[1]].slots[b[2]].rank
    /\ (\A p \in Procs : pc[p] \in {"groupEnd", "groupWait", "resources", "alive"}) =>
         {comms[a[1]].slots[a[2]].rank : a \in JoinedSlots} = 0..(get_total_gpu_count - 1)

C13_Witness ==
  /\ mpi
  /\ n_ranks = 2
  /\ device_list[1] = <<1, 0>>
  /\ device_list[2] = <<0, 1>>
  /\ \A p \in Procs : pc[p] = "groupWait"
  /\ comms[2].slots[2].rank = 3
  /\ Len(JoinLog(2)) = 5

\* ncclGroupEnd has returned successfully in process p.
JoinCompleted(p) == \E c \in CallsOf(p) : c.api = "ncclGroupEnd" /\ c.ok

\* Process q has issued the join of each of its accelerators and has
\* brought them to the rendezvous under identity token.
HasJoined(q, token) ==
  \A k \in 1..size(q) :
       /\ pc[q] \notin {"start", "validate", "alloc", "mpi_rank", "getId", "bcast",
                        "groupStart", "join", "groupEnd"}
       /\ \E c \in CallsOf(q) : c.api = "ncclCommInitRank" /\ c.idx = k /\ c.ok
       /\ [nid |-> token, rank |-> GlobalIndex(q, k), nranks |-> get_total_gpu_count]
            \in rendezvous

\* C14: with ENABLE_MPI, when ncclGroupEnd has returned in a process (and so
\* whenever one of its GPUResource constructors has started), every
\* accelerator of every cooperating process has joined the collective group
\* under the same token.
C14_JoinIsRendezvous ==
  mpi =>
    \A p \in Procs :
      (JoinCompleted(p) \/ FirstCall(p, {"GPUResource"}, Range(CreateApi), FALSE) # 0) =>
        \A q \in Procs : HasJoined(q, nid[p])

C14_Witness ==
  /\ mpi
  /\ n_ranks = 2
  /\ size(1) = 1
  /\ size(2) = 2
  /\ JoinCompleted(1)
  /\ pc[1] = "resources"
  /\ pc[2] = "groupWait"

\* ------------------------------------------------------------------ C15
\* The group's construction was abandoned at a point before MPI_Bcast.
AbortedBeforeBcast(q) ==
  /\ error[q] # NoError
  /\ \A c \in CallsOf(q) : c.api \notin {"MPI_Bcast"} \cup JoinApis

\* The group's construction was abandoned without ncclGroupEnd being called.
AbortedBeforeJoin(q) ==
  /\ error[q] # NoError
  /\ \A c \in CallsOf(q) : c.api # "ncclGroupEnd" /\ c.by # "GPUResource"

\* Control of p has reached MPI_Bcast (it is in the call or past it).
EnteredBcast(p) ==
  \/ error[p] = NoError /\ pc[p] \notin {"start", "validate", "alloc", "initAll", "mpi_rank", "getId"}
  \/ \E c \in CallsOf(p) : c.api = "MPI_Bcast"

\* The group's constructor has returned.
CtorReturned(p) ==
  error[p] = NoError /\ pc[p] \in {"alive", "m_pool", "m_res", "destroyed"}

\* C15 as claimed: once a process has abandoned its construction before the
\* broadcast, no other process that has reached the broadcast ever completes
\* or abandons its own construction.
C15_AsClaimed ==
  mpi =>
    \A q \in Procs : \A p \in Procs \ {q} :
      (AbortedBeforeBcast(q) /\ EnteredBcast(p)) =>
        (~CtorReturned(p) /\ error[p] = NoError)

\* C15, amended: when a process that owns at least one accelerator of the
\* device map has abandoned its construction without reaching ncclGroupEnd,
\* no other process completes its grouped join, builds a resource or returns
\* from its constructor; when rank 0 has abandoned its construction without
\* sending the token, no MPI_Bcast of another rank returns with it; and a
\* process that reached the broadcast abandons its own construction only
\* because one of its own calls reported failure.
C15_MissingRankBlocksTheOthers ==
  mpi =>
    \A q \in Procs : \A p \in Procs \ {q} :
      /\ (AbortedBeforeJoin(q) /\ size(q) > 0) =>
           /\ ~JoinCompleted(p)
           /\ gpu_resources[p] = <<>>
           /\ FirstCall(p, {"GPUResource"}, Range(CreateApi), FALSE) = 0
           /\ ~CtorReturned(p)
      /\ (AbortedBeforeJoin(q) /\ q - 1 = 0 /\ bcast = <<>>) =>
           /\ ~AfterBcast(p)
           /\ \A c \in CallsOf(p) : c.api \notin JoinApis
           /\ ~CtorReturned(p)
      /\ (EnteredBcast(p) /\ error[p] # NoError) =>
           FailedCallsBy(p, {"GPUResourceGroup", "GPUResource"}) # {}

\* Rank 1, with one accelerator listed, has abandoned its construction at
\* validation; rank 0 has sent the token, issued its joins and waits in
\* ncclGroupEnd.
C15_Witness ==
  /\ mpi
  /\ n_ranks = 2
  /\ size(2) > 0
  /\ AbortedBeforeBcast(2)
  /\ error[2].msg = "Invalid device id"
  /\ pc[1] = "groupWait"
  /\ AfterBcast(1)

\* ------------------------------------------------------------------ C16
\* The calls ~GPUResource() of resource i has made, in order.
DtorLog(p, i) ==
  SelectSeq(calls[p], LAMBDA c : c.by = "~GPUResource" /\ c.idx = i)

DtorRan(p, i) == DtorLog(p, i) # <<>>

\* Resources of p that have existed: local indices 1..N.
ResourceIds(p) == 1..Len(device_list[p])

\* Number of destroy calls ~GPUResource() of resource i made for native
\* object k (1 math-library handle, 2 RNG handle, 3 NN-primitives handle,
\* 4 compute stream, 5 and 6 the data-copy streams).
NDestroyed(p, i, k) ==
  Cardinality({j \in DOMAIN DtorLog(p, i) : DtorLog(p, i)[j].arg = k})

\* C16 as claimed: once the destructor of a resource has run, each of its
\* six native objects has had its destroy call exactly once.
C16_AsClaimed ==
  \A p \in Procs : \A i \in ResourceIds(p) :
    DtorRan(p, i) => \A k \in 1..NumHandles : NDestroyed(p, i, k) = 1

\* C16, amended: the destructor takes the device-context guard and then
\* makes the destroy calls in the order cublasDestroy,
\* curandDestroyGenerator, cudnnDestroy, cudaStreamDestroy (compute stream),
\* cudaStreamDestroy (copy stream 0), cudaStreamDestroy (copy stream 1),
\* each at most once, up to and including the first step that reports
\* failure and none after it; exactly the objects whose destroy call
\* succeeded are no longer live.
C16_DestroyInOrderUpToFirstFailure ==
  \A p \in Procs : \A i \in ResourceIds(p) :
    DtorRan(p, i) =>
      LET log == DtorLog(p, i)
          order == <<"CudaDeviceContext", "cublasDestroy", "curandDestroyGenerator",
                     "cudnnDestroy", "cudaStreamDestroy", "cudaStreamDestroy",
                     "cudaStreamDestroy">>
      IN /\ Len(log) <= NumHandles + 1
         /\ \A j \in DOMAIN log :
              /\ log[j].api = order[j]
              /\ log[j].arg = j - 1
              /\ j < Len(log) => log[j].ok
         /\ Len(log) < NumHandles + 1 => ~log[Len(log)].ok
         /\ \A k \in 1..NumHandles :
              /\ NDestroyed(p, i, k) <= 1
              /\ <<i, k>> \in handles[p] <=> ~(k + 1 <= Len(log) /\ log[k + 1].ok)

\* A two-resource group has been destroyed: the destructor of resource 1
\* made all its calls, that of resource 2 stopped at a failing
\* curandDestroyGenerator.
C16_Witness ==
  \E p \in Procs :
    /\ Len(device_list[p]) = 2
    /\ Len(DtorLog(p, 1)) = NumHandles + 1
    /\ \A j \in 1..(NumHandles + 1) : DtorLog(p, 1)[j].ok
    /\ Len(DtorLog(p, 2)) = 3
    /\ ~DtorLog(p, 2)[3].ok
    /\ {k \in 1..NumHandles : <<2, k>> \in handles[p]} = 2..NumHandles

\* ------------------------------------------------------------------ C17
\* The pointer denotes a slot of p's communicator array, the array is still
\* allocated and the communicator in that slot has not been destroyed.
RefersToLiveComm(p, ptr) ==
  /\ comms[p].base # NULL
  /\ SlotOf(p, ptr) \in DOMAIN comms[p].slots
  /\ comms[p].slots[SlotOf(p, ptr)].st # "destroyed"

\* C17: in every reachable state, the communicator reference of every live
\* resource (owned by the group's collection or kept alive by a caller's
\* copy of the shared pointer) denotes a slot of the still-allocated
\* communicator array whose communicator has not been destroyed.
C17_LiveResourceRefersToLiveComm ==
  \A p \in Procs : \A r \in LiveResources(p) : RefersToLiveComm(p, get_nccl_ptr(r))

\* C17, the part about callers: no resource outlives the group's
\* communicator array.
C17_NoResourceOutlivesArray ==
  \A p \in Procs : comms[p].base = NULL => LiveResources(p) = {}

\* ------------------------------------------------------------------ C18
\* Number of times ~GPUResource() has run for resource i (it takes the
\* device-context guard first, once per run).
DtorRuns(p, i) == NDestroyed(p, i, 0)

\* C18: when the constructor of the resource at local index k has failed
\* (the communicator array being populated), ncclCommDestroy is called for
\* no slot and no part of ~GPUResourceGroup() runs; the N communicators
\* stay joined until the array is freed; the destructor of each resource
\* built before k runs at most once, and exactly once by the time the
\* unwinding is over; no destructor runs for k or a later index.
C18_FailedBuildUnwinds ==
  \A p \in Procs : \A k \in ResourceIds(p) :
    ResourceCtorFailed(p, k) =>
      /\ \A i \in ResourceIds(p) : DestroyCount(p, i) = 0
      /\ \A c \in CallsOf(p) : c.by # "~GPUResourceGroup"
      /\ pc[p] \in {"m_pool", "m_res", "failed"}
      /\ pc[p] \in {"m_pool", "m_res"} =>
           /\ Len(comms[p].slots) = size(p)
           /\ \A i \in ResourceIds(p) : comms[p].slots[i].st = "joined"
      /\ \A i \in ResourceIds(p) :
           /\ DtorRuns(p, i) <= 1
           /\ i >= k => DtorRuns(p, i) = 0
           /\ pc[p] = "m_pool" => DtorRuns(p, i) = 0
           /\ (pc[p] = "failed" /\ i < k) => DtorRuns(p, i) = 1
      /\ pc[p] = "failed" => gpu_resources[p] = <<>> /\ held[p] = {}

\* The constructor of the second resource of a two-accelerator group
\* failed and the unwinding is over: the first resource's destructor ran.
C18_Witness ==
  \E p \in Procs :
    /\ size(p) = 2
    /\ ResourceCtorFailed(p, 2)
    /\ pc[p] = "failed"
    /\ DtorRuns(p, 1) = 1
    /\ DestroyCount(p, 1) = 0
    /\ DestroyCount(p, 2) = 0

\* ------------------------------------------------------------------ C19
\* A step of process p's constructor.
CtorStep(p) ==
  \/ CtorMembers(p)
  \/ Validate(p)
  \/ AllocComms(p)
  \/ CommInitAll(p)
  \/ MpiRankSize(p)
  \/ GetUniqueId(p)
  \/ MPI_Bcast(p)
  \/ GroupStart(p)
  \/ CommInitRank(p)
  \/ GroupEnd(p)
  \/ GroupEndReturn(p)
  \/ NewGPUResource(p)

\* Every process keeps running: a constructor step that can be taken
\* without a library call failing is eventually taken.  A process waiting
\* in MPI_Bcast or ncclGroupEnd has no such step.
Fairness ==
  \A p \in 1..MaxProcs : WF_vars(p \in Procs /\ CtorStep(p) /\ faults' = faults)

LiveSpec == Spec /\ Fairness

\* Every process was given a valid device map.
AllValid == \A p \in Procs : ValidMap(p)

\* The constructor of p has returned and built one resource per listed
\* accelerator.
Built(p) ==
  /\ CtorReturned(p)
  /\ \A i \in ResourceIds(p) :
       \E c \in CallsOf(p) :
         c.by = "GPUResource" /\ c.idx = i /\ c.arg = NumHandles /\ c.ok
  /\ pc[p] = "alive" => Len(gpu_resources[p]) = size(p)

\* C19: when every process has a valid device map and no library call
\* ever fails, every process eventually returns from the group's
\* constructor with all its N resources built.
C19_FailureFreeBootstrapCompletes ==
  (AllValid /\ [](faults = 0)) => <>(\A p \in Procs : Built(p))

\* Two processes, with two and one accelerators, have both completed.
C19_Witness ==
  /\ mpi
  /\ n_ranks = 2
  /\ size(1) = 2
  /\ size(2) = 1
  /\ faults = 0
  /\ Built(1)
  /\ Built(2)

\* ------------------------------------------------------------------ C20
\* Validation has rejected an accelerator identifier.
RejectedId(p) == error[p].type = "WrongInput" /\ error[p].msg = "Invalid device id"

\* C20: the worker pool (one thread per listed accelerator) and the
\* affinity setting of each of its threads exist as soon as the constructor
\* reaches the validation checks and before any library call; when an
\* out-of-range accelerator identifier is rejected the N threads exist
\* until the unwinding destroys the pool; for an empty list the pool never
\* has a thread.
C20_PoolBeforeValidation ==
  \A p \in Procs :
    /\ pc[p] = "validate" =>
         /\ pool[p] = size(p)
         /\ affinity[p] = size(p)
         /\ calls[p] = <<>>
         /\ error[p] = NoError
    /\ pc[p] = "start" => pool[p] = 0 /\ affinity[p] = 0
    /\ (RejectedId(p) /\ pc[p] = "m_pool") =>
         /\ OnlyCountQuery(p)
         /\ size(p) > 0
         /\ pool[p] = size(p)
         /\ affinity[p] = size(p)
    /\ (RejectedId(p) /\ pc[p] \in {"m_res", "failed"}) => pool[p] = 0 /\ affinity[p] = 0
    /\ RejectedId(p) => pc[p] \in {"m_pool", "m_res", "failed"}
    /\ size(p) = 0 => pool[p] = 0 /\ affinity[p] = 0

\* A list of two accelerators with an out-of-range identifier has been
\* rejected; the two worker threads exist and the unwinding has not yet
\* destroyed the pool.
C20_Witness ==
  \E p \in Procs :
    /\ InvalidId(p)
    /\ size(p) = 2
    /\ pc[p] = "m_pool"
    /\ error[p].msg = "Invalid device id"
    /\ pool[p] = 2
    /\ affinity[p] = 2
====
